---- MODULE Spec2Model ----
(***************************************************************************)
(* Model of src/tweenable.rs of bevy_tweening: the animation clock, the    *)
(* leaf Tween, the Delay, and the Sequence and Tracks composites, all      *)
(* behind the Tweenable contract.                                          *)
(*                                                                         *)
(* Time (std::time::Duration) is a natural number of time units.  f32      *)
(* ratios are exact rationals [n, d]: the rounding of f32 to 24 bits is    *)
(* far below one time unit and is not modelled.  Duration::mul_f32         *)
(* truncates to a whole unit and panics on a negative product, as          *)
(* from_secs_f32 does.                                                     *)
(* A panic is the flag `panicked`: the object is lost, nothing runs after. *)
(***************************************************************************)
EXTENDS Integers, Sequences, FiniteSets, TLC

VARIABLES root, target, last, panicked, ticked, sent, calls, resolution

vars == <<root, target, last, panicked, ticked, sent, calls, resolution>>

(***************************************************************************)
(* Bounds of the model.                                                    *)
(***************************************************************************)
\* time units per second (as_secs_f32 of one unit is 1 / TicksPerSec)
TicksPerSec == 8
\* time units per second of the runs in which one unit is shorter than 1e-5 s
FineTicksPerSec == 125000
\* cap on times_completed of a looping tween: ticks that would pass it are not taken
MaxCompletions == 3
\* largest number of children a Sequence is grown to by then()
MaxLen == 2
\* largest number of set_progress, set_speed, rewind and set_direction calls on one
\* tweenable
MaxCalls == 2

\* 1e-5, the tolerance of the source, is 1 / EpsDen
EpsDen == 100000

(***************************************************************************)
(* f32 arithmetic on exact rationals.                                      *)
(***************************************************************************)
Rat(n, d) == [n |-> n, d |-> d]

Zero == Rat(0, 1)

One == Rat(1, 1)

RECURSIVE GCD(_, _)
GCD(a, b) == IF b = 0 THEN a ELSE GCD(b, a % b)

Abs(x) == IF x < 0 THEN -x ELSE x

Norm(r) ==
    LET g == GCD(Abs(r.n), r.d)
    IN  IF g = 0 THEN r ELSE Rat(r.n \div g, r.d \div g)

RLt(a, b) == a.n * b.d < b.n * a.d

RLe(a, b) == a.n * b.d <= b.n * a.d

REq(a, b) == a.n * b.d = b.n * a.d

RSub(a, b) == Norm(Rat(a.n * b.d - b.n * a.d, a.d * b.d))

RMul(a, b) == Norm(Rat(a.n * b.n, a.d * b.d))

Min(a, b) == IF a < b THEN a ELSE b

\* f32::fract: the fractional part, carrying the sign of the number
Fract(r) ==
    IF r.n >= 0 THEN Norm(Rat(r.n % r.d, r.d))
    ELSE Norm(Rat(0 - ((0 - r.n) % r.d), r.d))

\* f32::clamp(0., 1.)
Clamp01(r) == IF r.n < 0 THEN Zero ELSE IF r.n > r.d THEN One ELSE Norm(r)

\* Duration::as_secs_f32 of a time unit no shorter than 1e-5 s
AsSecsCoarse(dur) == Rat(dur, TicksPerSec)

\* Duration::as_secs_f32
AsSecs(dur) == Rat(dur, resolution)

\* Duration::mul_f32 panics when the product is negative
MulF32Panics(dur, r) == dur * r.n < 0

\* Duration::mul_f32: the product, truncated to a whole unit
MulF32(dur, r) == IF dur * r.n < 0 THEN 0 ELSE (dur * r.n) \div r.d

(***************************************************************************)
(* AnimClock                                                               *)
(***************************************************************************)
AnimClockNew(duration, is_looping) ==
    [elapsed |-> 0, duration |-> duration, original |-> duration,
     is_looping |-> is_looping]

\* (elapsed / duration).floor(), without the tolerance
FloorExact(elapsed, duration) == elapsed \div duration

\* ((elapsed / duration) + 1e-5).floor(): with elapsed = q * duration + r the sum
\* reaches q + 1 when r / duration + 1e-5 >= 1, that is duration - r <= duration * 1e-5
FloorWithEps(elapsed, duration) ==
    LET q == elapsed \div duration
        r == elapsed % duration
    IN  IF duration - r <= (duration \div EpsDen) THEN q + 1 ELSE q

\* a tick that lets the elapsed time of a non-looping clock run past the duration
ClockTickUnclamped(c, delta) ==
    LET e == c.elapsed + delta
    IN  IF e < c.duration THEN [clock |-> [c EXCEPT !.elapsed = e], n |-> 0]
        ELSE IF c.is_looping
        THEN [clock |-> [c EXCEPT !.elapsed = e % c.duration],
              n |-> FloorWithEps(e, c.duration)]
        ELSE [clock |-> [c EXCEPT !.elapsed = e], n |-> 1]

\* AnimClock::tick: the clock after the tick and the number of completions
ClockTick(c, delta) ==
    LET e == c.elapsed + delta
    IN  IF e < c.duration THEN [clock |-> [c EXCEPT !.elapsed = e], n |-> 0]
        ELSE IF c.is_looping
        THEN [clock |-> [c EXCEPT !.elapsed = e % c.duration],
              n |-> FloorWithEps(e, c.duration)]
        ELSE [clock |-> [c EXCEPT !.elapsed = c.duration], n |-> 1]

\* the ratio clamped to [0, 1] on a looping clock as on any other
ClockSetProgressRatioClamped(c, progress) == Clamp01(progress)

ClockSetProgressRatio(c, progress) ==
    IF c.is_looping THEN Fract(progress) ELSE Clamp01(progress)

ClockSetProgressPanics(c, progress) ==
    MulF32Panics(c.duration, ClockSetProgressRatio(c, progress))

ClockSetProgress(c, progress) ==
    [c EXCEPT !.elapsed = MulF32(c.duration, ClockSetProgressRatio(c, progress))]

ClockProgress(c) == Norm(Rat(c.elapsed, c.duration))

\* completed only once the elapsed time is past the duration
ClockCompletedStrict(c) == c.elapsed > c.duration

ClockCompleted(c) == c.elapsed >= c.duration

ClockReset(c) == [c EXCEPT !.elapsed = 0]

(***************************************************************************)
(* The effects of one call on its surroundings: the target the lenses      *)
(* write, the events sent, the callbacks invoked, and their order.         *)
(***************************************************************************)
Unset == Rat(0, 0)

Lenses == {"pos", "rot"}

\* the entity handed to tick: it is only passed on to the event and the callback
Entities == {0, 1}

NoEffects(tgt) ==
    [target |-> tgt, entity |-> 0, events |-> 0, callbacks |-> 0, log |-> <<>>,
     panicked |-> FALSE]

OnEntity(env, entity) == [env EXCEPT !.entity = entity]

Panic(env) == [env EXCEPT !.panicked = TRUE]

Entry(e, who, v) == [e |-> e, who |-> who, v |-> v]

\* an event or a callback, which carries the entity of the tick
Notice(e, who, v, entity) == [e |-> e, who |-> who, v |-> v, entity |-> entity]

\* the callback invoked before the event is sent
TweenNotifyCallbackFirst(tw, times_completed, env) ==
    IF times_completed > 0
    THEN LET e1 == IF tw.on_completed
                   THEN [env EXCEPT !.callbacks = @ + 1,
                                    !.log = Append(@, Notice("callback", tw.lens,
                                                     Rat(tw.times_completed, 1), env.entity))]
                   ELSE env
         IN  IF tw.event_data
             THEN [e1 EXCEPT !.events = @ + 1,
                             !.log = Append(@, Notice("event", tw.lens, Zero, env.entity))]
             ELSE e1
    ELSE env

(***************************************************************************)
(* Tween                                                                   *)
(***************************************************************************)
Once == [t |-> "Once", n |-> 0]

Loop == [t |-> "Loop", n |-> 0]

PingPong == [t |-> "PingPong", n |-> 0]

LoopTimes(n) == [t |-> "LoopTimes", n |-> n]

PingPongTimes(n) == [t |-> "PingPongTimes", n |-> n]

TweenNew(ease_function, tweening_type, duration, lens) ==
    [kind |-> "Tween",
     ease_function |-> ease_function,
     clock |-> AnimClockNew(duration, tweening_type # Once),
     times_completed |-> 0,
     tweening_type |-> tweening_type,
     direction |-> "Forward",
     lens |-> lens,
     on_completed |-> FALSE,
     event_data |-> FALSE]

WithDirection(tw, direction) == [tw EXCEPT !.direction = direction]

Directions == {"Forward", "Backward"}

TweenSetDirection(tw, direction) == [tw EXCEPT !.direction = direction]

\* set_completed(callback) and set_completed_event(true, user_data)
WithNotifications(tw, on) == [tw EXCEPT !.on_completed = on, !.event_data = on]

\* a flip that leaves the direction as it is
KeepDirection(direction) == direction

Reverse(direction) == IF direction = "Forward" THEN "Backward" ELSE "Forward"

\* EaseMethod::sample for the linear and the quadratic-in curve
Sample(ease_function, x) ==
    IF ease_function = "Linear" THEN Norm(x) ELSE RMul(x, x)

\* every policy but Once taken as counted, Loop and PingPong with a count of 0
TweenIsLoopingCounted(tw) ==
    tw.tweening_type.t # "Once" /\ tw.times_completed < tw.tweening_type.n

\* a counted policy taken as looping until times_completed is past its count
TweenIsLoopingInclusive(tw) ==
    CASE tw.tweening_type.t = "Once" -> FALSE
      [] tw.tweening_type.t \in {"Loop", "PingPong"} -> TRUE
      [] OTHER -> tw.times_completed <= tw.tweening_type.n

\* a counted policy taken as looping without end
TweenIsLoopingUncounted(tw) == tw.tweening_type.t # "Once"

TweenIsLooping(tw) ==
    CASE tw.tweening_type.t = "Once" -> FALSE
      [] tw.tweening_type.t \in {"Loop", "PingPong"} -> TRUE
      [] OTHER -> tw.times_completed < tw.tweening_type.n

TweenSetProgressPanics(tw, progress) == ClockSetProgressPanics(tw.clock, progress)

\* a seek that also forgets the completions counted so far
TweenSetProgressResets(tw, progress) ==
    [tw EXCEPT !.clock = ClockSetProgress(tw.clock, progress), !.times_completed = 0]

TweenSetProgress(tw, progress) ==
    [tw EXCEPT !.clock = ClockSetProgress(tw.clock, progress)]

TweenSetSpeedPanics(tw, speed) == MulF32Panics(tw.clock.original, speed)

\* a speed change that rescales the duration and leaves the elapsed time as it is
TweenSetSpeedKeepsElapsed(tw, speed) ==
    [tw EXCEPT !.clock.duration = MulF32(tw.clock.original, speed)]

TweenSetSpeed(tw, speed) ==
    LET progress == ClockProgress(tw.clock)
        t1 == [tw EXCEPT !.clock.duration = MulF32(tw.clock.original, speed)]
    IN  TweenSetProgress(t1, progress)

TweenRewind(tw) ==
    [tw EXCEPT !.clock = ClockReset(tw.clock), !.times_completed = 0]

\* the ratio handed to the easing curve
TweenFactor(tw) ==
    LET progress == ClockProgress(tw.clock)
    IN  IF tw.direction = "Backward" THEN RSub(One, progress) ELSE progress

\* the event and the callback of a tick that completed times_completed times
TweenNotify(tw, times_completed, env) ==
    IF times_completed > 0
    THEN LET e1 == IF tw.event_data
                   THEN [env EXCEPT !.events = @ + 1,
                                    !.log = Append(@, Notice("event", tw.lens, Zero, env.entity))]
                   ELSE env
         IN  IF tw.on_completed
             THEN [e1 EXCEPT !.callbacks = @ + 1,
                             !.log = Append(@, Notice("callback", tw.lens,
                                                     Rat(tw.times_completed, 1),
                                                     env.entity))]
             ELSE e1
    ELSE env

TweenTick(tw, delta, env) ==
    IF ~TweenIsLooping(tw) /\ ClockCompleted(tw.clock)
    THEN [node |-> tw, state |-> "Completed", env |-> env]
    ELSE LET ct == ClockTick(tw.clock, delta)
             times_completed == ct.n
             t1 == [tw EXCEPT !.clock = ct.clock,
                              !.times_completed = @ + times_completed]
             flip == /\ times_completed % 2 # 0
                     /\ tw.tweening_type.t \in {"PingPong", "PingPongTimes"}
             t2 == [t1 EXCEPT !.direction = IF flip THEN Reverse(@) ELSE @]
             state == IF TweenIsLooping(t2) \/ t2.times_completed = 0
                      THEN "Active" ELSE "Completed"
             factor == Sample(t2.ease_function, TweenFactor(t2))
             e1 == [env EXCEPT !.target[t2.lens] = factor,
                               !.log = Append(@, Entry("lerp", t2.lens, factor))]
         IN  [node |-> t2, state |-> state,
              env |-> TweenNotify(t2, times_completed, e1)]

(***************************************************************************)
(* Delay, over bevy's non-repeating Timer                                  *)
(***************************************************************************)
\* Timer::new(duration, false)
TimerNew(duration) == [elapsed |-> 0, duration |-> duration, finished |-> FALSE]

\* a timer that finishes only once its elapsed time is past the duration
TimerTickStrict(t, delta) ==
    IF t.finished THEN t
    ELSE IF t.elapsed + delta > t.duration
         THEN [t EXCEPT !.elapsed = t.duration, !.finished = TRUE]
         ELSE [t EXCEPT !.elapsed = t.elapsed + delta]

\* Timer::tick of a non-repeating timer: a finished timer stays as it is
TimerTick(t, delta) ==
    IF t.finished THEN t
    ELSE IF t.elapsed + delta >= t.duration
         THEN [t EXCEPT !.elapsed = t.duration, !.finished = TRUE]
         ELSE [t EXCEPT !.elapsed = t.elapsed + delta]

\* Timer::reset
TimerReset(t) == [t EXCEPT !.elapsed = 0, !.finished = FALSE]

DelayNew(duration) ==
    [kind |-> "Delay", timer |-> TimerNew(duration), original |-> duration]

DelaySetSpeedPanics(dl, speed) == MulF32Panics(dl.original, speed)

\* a speed change that scales the current duration, not the original one
DelaySetSpeedCumulative(dl, speed) ==
    [dl EXCEPT !.timer.duration = MulF32(dl.timer.duration, speed)]

DelaySetSpeed(dl, speed) ==
    [dl EXCEPT !.timer.duration = MulF32(dl.original, speed)]

DelaySetProgressPanics(dl, progress) == MulF32Panics(dl.timer.duration, progress)

DelaySetProgress(dl, progress) ==
    [dl EXCEPT !.timer =
        TimerTick(TimerReset(dl.timer), MulF32(dl.timer.duration, progress))]

\* Timer::percent
DelayProgress(dl) == Norm(Rat(dl.timer.elapsed, dl.timer.duration))

DelayTick(dl, delta, env) ==
    LET d1 == [dl EXCEPT !.timer = TimerTick(dl.timer, delta)]
    IN  [node |-> d1,
         state |-> IF d1.timer.finished THEN "Completed" ELSE "Active",
         env |-> env]

DelayTimesCompleted(dl) == IF dl.timer.finished THEN 1 ELSE 0

DelayRewind(dl) == [dl EXCEPT !.timer = TimerReset(dl.timer)]

(***************************************************************************)
(* The Tweenable contract: dispatch on the kind of node.  A set_progress   *)
(* or set_speed gives [node, panicked]; a tick gives [node, state, env].   *)
(***************************************************************************)
RECURSIVE Duration(_)
RECURSIVE Progress(_)
RECURSIVE TimesCompleted(_)
RECURSIVE IsLooping(_)
RECURSIVE SetSpeed(_, _)
RECURSIVE SetProgress(_, _)
RECURSIVE Rewind(_)
RECURSIVE Tick(_, _, _)
RECURSIVE SeqScan(_, _, _, _)
RECURSIVE SequenceTickLoop(_, _, _)
RECURSIVE TracksSetProgressFrom(_, _, _)
RECURSIVE TracksTickFrom(_, _, _, _, _)
RECURSIVE SumDurations(_, _)
RECURSIVE MaxDurations(_, _)

Ok(node) == [node |-> node, panicked |-> FALSE]

Res(node, failed) == [node |-> node, panicked |-> failed]

Eps == Rat(1, EpsDen)

(***************************************************************************)
(* Sequence                                                                *)
(***************************************************************************)
SumDurations(tweens, i) ==
    IF i > Len(tweens) THEN 0 ELSE Duration(tweens[i]) + SumDurations(tweens, i + 1)

\* Sequence::new; the assertion on an empty collection is NewPanics
SequenceNew(items) ==
    [kind |-> "Sequence", tweens |-> items, index |-> 0,
     duration |-> SumDurations(items, 1), elapsed |-> 0]

SequenceNewPanics(items) == Len(items) = 0

SequenceFromSingle(tween) ==
    [kind |-> "Sequence", tweens |-> <<tween>>, index |-> 0,
     duration |-> Duration(tween), elapsed |-> 0]

SequenceWithCapacity ==
    [kind |-> "Sequence", tweens |-> <<>>, index |-> 0, duration |-> 0, elapsed |-> 0]

SequenceThen(seq, tween) ==
    [seq EXCEPT !.duration = @ + Duration(tween), !.tweens = Append(@, tween)]

\* Tween::then and Delay::then
LeafThen(first, tween) == SequenceThen(SequenceThen(SequenceWithCapacity, first), tween)

\* Sequence::index: len - 1 underflows on an empty sequence
SequenceIndexPanics(seq) == Len(seq.tweens) = 0

SequenceIndex(seq) == Min(seq.index, Len(seq.tweens) - 1)

SequenceSetSpeed(seq, speed) ==
    LET rs == [i \in 1..Len(seq.tweens) |-> SetSpeed(seq.tweens[i], speed)]
    IN  Res([seq EXCEPT !.tweens = [i \in 1..Len(seq.tweens) |-> rs[i].node]],
            \E i \in 1..Len(seq.tweens) : rs[i].panicked)

SequenceRewind(seq) ==
    [seq EXCEPT !.elapsed = 0, !.index = 0,
                !.tweens = [i \in 1..Len(seq.tweens) |-> Rewind(seq.tweens[i])]]

\* the loop of Sequence::set_progress from child `index` on, `delta` left to place
SeqScan(tweens, self_index, index, delta) ==
    IF index >= Len(tweens)
    THEN [tweens |-> tweens, index |-> index, panicked |-> FALSE]
    ELSE LET tween == tweens[index + 1]
             tween_duration == Duration(tween)
             tween_delta == AsSecs(tween_duration - delta)
             full == IF index >= self_index THEN SetProgress(tween, One) ELSE Ok(tween)
         IN  IF RLt(tween_delta, Rat(-1, EpsDen))
             THEN IF full.panicked
                  THEN [tweens |-> tweens, index |-> index, panicked |-> TRUE]
                  ELSE SeqScan([tweens EXCEPT ![index + 1] = full.node],
                               self_index, index + 1, delta - tween_duration)
             ELSE IF RLt(Eps, tween_delta)
             THEN LET part == SetProgress(tween,
                                  Rat(tween_duration - delta, tween_duration))
                  IN  [tweens |-> [tweens EXCEPT ![index + 1] = part.node],
                       index |-> index, panicked |-> part.panicked]
             ELSE [tweens |-> [tweens EXCEPT ![index + 1] = full.node],
                   index |-> index + 1, panicked |-> full.panicked]

SequenceSetProgress(seq, progress) ==
    IF RLt(progress, Eps) THEN Ok(SequenceRewind(seq))
    ELSE IF RLt(RSub(One, Eps), progress)
    THEN Ok([seq EXCEPT !.elapsed = seq.duration, !.index = Len(seq.tweens)])
    ELSE LET elapsed == MulF32(seq.duration, Clamp01(progress))
             scan == SeqScan(seq.tweens, seq.index, 0, elapsed)
             end == Min(seq.index + 1, Len(seq.tweens))
             tweens == IF scan.index < seq.index
                       THEN [i \in 1..Len(seq.tweens) |->
                                IF i - 1 >= scan.index + 1 /\ i - 1 < end
                                THEN Rewind(scan.tweens[i]) ELSE scan.tweens[i]]
                       ELSE scan.tweens
         IN  Res([seq EXCEPT !.elapsed = elapsed, !.tweens = tweens,
                             !.index = scan.index],
                 scan.panicked)

SequenceProgress(seq) == Norm(Rat(seq.elapsed, seq.duration))

SequenceTimesCompleted(seq) == IF seq.index = Len(seq.tweens) THEN 1 ELSE 0

\* a whole child duration, whatever part of it was played before the tick
UsedDeltaWhole(tween_duration, prev_progress) == tween_duration

\* the part of delta the finished child used: what it had left before the tick
UsedDelta(tween_duration, prev_progress) ==
    MulF32(tween_duration, RSub(One, prev_progress))

\* one turn of the loop of Sequence::tick, at the child seq.index
SequenceTickLoop(seq, delta, env) ==
    IF seq.index >= Len(seq.tweens)
    THEN [node |-> seq, state |-> "Completed", env |-> env]
    ELSE LET tween == seq.tweens[seq.index + 1]
             prev_progress == Progress(tween)
             prev_completions == TimesCompleted(tween)
             r == Tick(tween, delta, env)
             s1 == [seq EXCEPT !.tweens[seq.index + 1] = r.node]
             s2 == [s1 EXCEPT !.index = @ + 1]
             tween_duration == Duration(r.node)
             extra == TimesCompleted(r.node) - prev_completions - 1
             full_completions == extra * tween_duration
             rest == RSub(One, prev_progress)
             used_delta == UsedDelta(tween_duration, prev_progress)
         IN  IF r.env.panicked \/ r.state # "Completed"
             THEN [node |-> s1, state |-> r.state, env |-> r.env]
             ELSE IF s2.index = Len(seq.tweens)
             THEN [node |-> s2, state |-> "Completed", env |-> r.env]
             ELSE IF \/ extra < 0
                     \/ full_completions > delta
                     \/ MulF32Panics(tween_duration, rest)
             THEN [node |-> s2, state |-> "Completed", env |-> Panic(r.env)]
             ELSE IF used_delta <= delta - full_completions
             THEN SequenceTickLoop(s2, delta - full_completions - used_delta, r.env)
             ELSE [node |-> s2, state |-> "Active", env |-> r.env]

\* a tick that hands the whole delta to the current child and stops there
SequenceTickCurrentOnly(seq, delta, env) ==
    IF seq.index >= Len(seq.tweens)
    THEN [node |-> seq, state |-> "Completed", env |-> env]
    ELSE LET r == Tick(seq.tweens[seq.index + 1], delta, env)
             s1 == [seq EXCEPT !.tweens[seq.index + 1] = r.node,
                               !.elapsed = Min(seq.elapsed + delta, seq.duration)]
             s2 == [s1 EXCEPT !.index = @ + 1]
         IN  IF r.state # "Completed"
             THEN [node |-> s1, state |-> r.state, env |-> r.env]
             ELSE [node |-> s2,
                   state |-> IF s2.index = Len(seq.tweens) THEN "Completed" ELSE "Active",
                   env |-> r.env]

\* a tick that reports a finished sequence as Active
SequenceTickReopens(seq, delta, env) ==
    LET r == SequenceTickLoop([seq EXCEPT !.elapsed = Min(seq.elapsed + delta,
                                                             seq.duration)],
                              delta, env)
    IN  IF seq.index >= Len(seq.tweens) THEN [r EXCEPT !.state = "Active"] ELSE r

SequenceTick(seq, delta, env) ==
    SequenceTickLoop([seq EXCEPT !.elapsed = Min(seq.elapsed + delta, seq.duration)],
                     delta, env)

(***************************************************************************)
(* Tracks                                                                  *)
(***************************************************************************)
MaxDurations(tracks, i) ==
    IF i > Len(tracks) THEN 0
    ELSE LET m == MaxDurations(tracks, i + 1)
             d == Duration(tracks[i])
         IN  IF d > m THEN d ELSE m

\* Tracks::new; max().unwrap() on an empty collection is NewPanics
TracksNew(items) ==
    [kind |-> "Tracks", tracks |-> items, duration |-> MaxDurations(items, 1),
     elapsed |-> 0, completed |-> FALSE]

TracksNewPanics(items) == Len(items) = 0

TracksSetSpeed(tr, speed) ==
    LET rs == [i \in 1..Len(tr.tracks) |-> SetSpeed(tr.tracks[i], speed)]
    IN  Res([tr EXCEPT !.tracks = [i \in 1..Len(tr.tracks) |-> rs[i].node]],
            \E i \in 1..Len(tr.tracks) : rs[i].panicked)

TracksSetProgressFrom(tracks, i, elapsed) ==
    IF i > Len(tracks) THEN [tracks |-> tracks, panicked |-> FALSE]
    ELSE LET r == SetProgress(tracks[i], Rat(elapsed, Duration(tracks[i])))
         IN  IF r.panicked THEN [tracks |-> tracks, panicked |-> TRUE]
             ELSE TracksSetProgressFrom([tracks EXCEPT ![i] = r.node], i + 1, elapsed)

TracksSetProgress(tr, progress) ==
    LET elapsed == MulF32(tr.duration, Clamp01(progress))
        r == TracksSetProgressFrom(tr.tracks, 1, elapsed)
    IN  Res([tr EXCEPT !.elapsed = elapsed, !.tracks = r.tracks], r.panicked)

TracksProgress(tr) == Norm(Rat(tr.elapsed, tr.duration))

TracksTickFrom(tr, i, delta, env, state) ==
    IF i > Len(tr.tracks) \/ env.panicked
    THEN [node |-> tr, state |-> state, env |-> env]
    ELSE LET r == Tick(tr.tracks[i], delta, env)
         IN  TracksTickFrom([tr EXCEPT !.tracks[i] = r.node], i + 1, delta, r.env,
                            IF r.state = "Active" THEN "Active" ELSE state)

\* a tick that is Completed as soon as one child has completed
TracksTickAny(tr, delta, env) ==
    LET t1 == [tr EXCEPT !.elapsed = Min(tr.elapsed + delta, tr.duration)]
        r == TracksTickFrom(t1, 1, delta, env, "Completed")
        state == IF \E i \in 1 .. Len(tr.tracks) : TimesCompleted(r.node.tracks[i]) > 0
                 THEN "Completed" ELSE "Active"
    IN  [node |-> [r.node EXCEPT !.completed = (state = "Completed")],
         state |-> state, env |-> r.env]

TracksTick(tr, delta, env) ==
    LET t1 == [tr EXCEPT !.elapsed = Min(tr.elapsed + delta, tr.duration)]
        r == TracksTickFrom(t1, 1, delta, env, "Completed")
    IN  [node |-> [r.node EXCEPT !.completed = (r.state = "Completed")],
         state |-> r.state, env |-> r.env]

TracksTimesCompleted(tr) == IF tr.completed THEN 1 ELSE 0

TracksRewind(tr) ==
    [tr EXCEPT !.elapsed = 0, !.completed = FALSE,
               !.tracks = [i \in 1..Len(tr.tracks) |-> Rewind(tr.tracks[i])]]

(***************************************************************************)
(* Dispatch                                                                *)
(***************************************************************************)
Duration(node) ==
    CASE node.kind = "Tween" -> node.clock.duration
      [] node.kind = "Delay" -> node.timer.duration
      [] OTHER -> node.duration

Progress(node) ==
    CASE node.kind = "Tween" -> ClockProgress(node.clock)
      [] node.kind = "Delay" -> DelayProgress(node)
      [] node.kind = "Sequence" -> SequenceProgress(node)
      [] OTHER -> TracksProgress(node)

TimesCompleted(node) ==
    CASE node.kind = "Tween" -> node.times_completed
      [] node.kind = "Delay" -> DelayTimesCompleted(node)
      [] node.kind = "Sequence" -> SequenceTimesCompleted(node)
      [] OTHER -> TracksTimesCompleted(node)

IsLooping(node) == IF node.kind = "Tween" THEN TweenIsLooping(node) ELSE FALSE

SetSpeed(node, speed) ==
    CASE node.kind = "Tween" ->
            Res(TweenSetSpeed(node, speed),
                TweenSetSpeedPanics(node, speed)
                    \/ TweenSetProgressPanics(node, ClockProgress(node.clock)))
      [] node.kind = "Delay" ->
            Res(DelaySetSpeed(node, speed), DelaySetSpeedPanics(node, speed))
      [] node.kind = "Sequence" -> SequenceSetSpeed(node, speed)
      [] OTHER -> TracksSetSpeed(node, speed)

SetProgress(node, progress) ==
    CASE node.kind = "Tween" ->
            Res(TweenSetProgress(node, progress), TweenSetProgressPanics(node, progress))
      [] node.kind = "Delay" ->
            Res(DelaySetProgress(node, progress), DelaySetProgressPanics(node, progress))
      [] node.kind = "Sequence" -> SequenceSetProgress(node, progress)
      [] OTHER -> TracksSetProgress(node, progress)

Rewind(node) ==
    CASE node.kind = "Tween" -> TweenRewind(node)
      [] node.kind = "Delay" -> DelayRewind(node)
      [] node.kind = "Sequence" -> SequenceRewind(node)
      [] OTHER -> TracksRewind(node)

Tick(node, delta, env) ==
    CASE node.kind = "Tween" -> TweenTick(node, delta, env)
      [] node.kind = "Delay" -> DelayTick(node, delta, env)
      [] node.kind = "Sequence" -> SequenceTick(node, delta, env)
      [] OTHER -> TracksTick(node, delta, env)

(***************************************************************************)
(* The state machine: one tweenable, owned by its driver, and the public   *)
(* operations on it.                                                       *)
(*   root      the tweenable                                               *)
(*   target    the component the lenses write                              *)
(*   last      the last operation, its argument and, for a tick, the state *)
(*             it returned                                                 *)
(*   panicked  an operation panicked                                       *)
(*   ticked    the sum of the deltas ticked so far, while nothing but tick *)
(*             was called since construction and the sum is at most        *)
(*             MaxTicked; -1 afterwards                                    *)
(*   sent      the events and callbacks of all ticks, while ticked >= 0    *)
(*   calls     the number of set_progress, set_speed, rewind and           *)
(*             set_direction calls                                         *)
(*   resolution  the number of time units in one second                    *)
(***************************************************************************)
\* the largest sum of deltas `ticked` follows
MaxTicked == 10

Deltas == {0, 1, 2, 5}

Speeds == {One, Rat(2, 1)}

\* the progress ratios given to set_progress on a tweenable of duration d: those
\* that fall on a whole time unit, one below 0 and one above 1, and -1
RatiosOf(d) ==
    LET den == IF d = 0 THEN 1 ELSE d
    IN  {Norm(Rat(k, den)) : k \in (-1 .. den + 1) \cup {0 - den}}

TweeningTypes == {Once, Loop, LoopTimes(1), LoopTimes(2), PingPong, PingPongTimes(2)}

\* Tween::new(..).with_direction(..), with set_completed and set_completed_event
TweenRoots ==
    { WithNotifications(WithDirection(TweenNew(c[1], ty, 2, "pos"), c[2]), TRUE) :
        ty \in TweeningTypes,
        c \in {<<"Linear", "Forward">>, <<"QuadraticIn", "Backward">>} }
    \cup {TweenNew("Linear", Once, 2, "pos")}

DelayRoots == {DelayNew(2), DelayNew(3)}

\* the shortest duration of which 1e-5 is a whole time unit
LongDuration == EpsDen

\* the deltas ticked on a tween of duration LongDuration: one unit short of one and
\* of two periods, and a whole period
LongDeltas == {0, LongDuration - 1, LongDuration, 2 * LongDuration - 1}

\* the tweens that loop without end, of duration 2 and of duration LongDuration
LoopRoots ==
    {tw \in TweenRoots : tw.tweening_type \in {Loop, PingPong}}
    \cup {TweenNew("Linear", ty, LongDuration, "pos") : ty \in {Loop, PingPong}}

\* the tweenables given to Sequence::new, Tracks::new, from_single and then
KidA == WithNotifications(TweenNew("Linear", Once, 2, "pos"), TRUE)

KidB == TweenNew("Linear", Once, 3, "rot")

Kids == {KidA, KidB}

Items == {<<>>} \cup {<<a>> : a \in Kids} \cup {<<a, b>> : a, b \in Kids}

\* every Sequence a public constructor returns; a constructor that panics returns none
SequenceRoots ==
    {SequenceNew(items) :
        items \in {i \in Items \cup {<<KidA, KidA, KidB>>} : ~SequenceNewPanics(i)}}
    \cup {SequenceFromSingle(k) : k \in Kids}
    \cup {SequenceWithCapacity}

TracksRoots == {TracksNew(items) : items \in {i \in Items : ~TracksNewPanics(i)}}

Constructed == TweenRoots \cup DelayRoots \cup SequenceRoots \cup TracksRoots

NoCall == [op |-> "new", arg |-> Zero, state |-> "None"]

NoneSent == [events |-> 0, callbacks |-> 0]

InitAt(roots, ticks_per_sec) ==
    /\ root \in roots
    /\ resolution = ticks_per_sec
    /\ target = [l \in Lenses |-> Unset]
    /\ last = NoCall
    /\ panicked = FALSE
    /\ ticked = 0
    /\ sent = NoneSent
    /\ calls = 0

InitOf(roots) == InitAt(roots, TicksPerSec)

Init == InitOf(Constructed)

RECURSIVE Completions(_)
RECURSIVE CompletionsOf(_, _)
\* the largest times_completed of the tweens of a tree
Completions(node) ==
    CASE node.kind = "Tween" -> node.times_completed
      [] node.kind = "Delay" -> 0
      [] node.kind = "Sequence" -> CompletionsOf(node.tweens, 1)
      [] OTHER -> CompletionsOf(node.tracks, 1)

CompletionsOf(nodes, i) ==
    IF i > Len(nodes) THEN 0
    ELSE LET m == CompletionsOf(nodes, i + 1)
             c == Completions(nodes[i])
         IN  IF c > m THEN c ELSE m

\* the largest sum of deltas `ticked` follows on a node: MaxTicked units, or three
\* periods of a tween long enough for 1e-5 of its duration to be a whole unit
TickedCap(node) ==
    IF Duration(node) >= LongDuration THEN 3 * Duration(node) ELSE MaxTicked

\* what tick(delta) on the root does and returns
Ticked(delta) == Tick(root, delta, NoEffects(target))

\* tick(delta, target, entity, event_writer)
DoTick(delta) ==
    LET r == Ticked(delta)
        t == IF ticked >= 0 /\ ticked + delta <= TickedCap(root)
             THEN ticked + delta ELSE -1
    IN  /\ ~panicked
        /\ Completions(r.node) <= MaxCompletions
        /\ panicked' = r.env.panicked
        /\ root' = IF r.env.panicked THEN root ELSE r.node
        /\ target' = IF r.env.panicked THEN target ELSE r.env.target
        /\ last' = [op |-> "tick", arg |-> Rat(delta, 1),
                    state |-> IF r.env.panicked THEN "Panic" ELSE r.state]
        /\ ticked' = t
        /\ calls' = calls
        /\ resolution' = resolution
        /\ sent' = IF t >= 0
                   THEN [events |-> sent.events + r.env.events,
                         callbacks |-> sent.callbacks + r.env.callbacks]
                   ELSE NoneSent

Called(op, arg, r) ==
    /\ calls < MaxCalls
    /\ calls' = calls + 1
    /\ panicked' = r.panicked
    /\ root' = IF r.panicked THEN root ELSE r.node
    /\ last' = [op |-> op, arg |-> arg,
                state |-> IF r.panicked THEN "Panic" ELSE "None"]
    /\ ticked' = -1
    /\ sent' = NoneSent
    /\ UNCHANGED <<target, resolution>>

\* set_progress(progress)
DoSetProgress(progress) ==
    /\ ~panicked
    /\ Called("set_progress", progress, SetProgress(root, progress))

\* set_speed(speed)
DoSetSpeed(speed) ==
    /\ ~panicked
    /\ Called("set_speed", speed, SetSpeed(root, speed))

\* rewind()
DoRewind ==
    /\ ~panicked
    /\ Called("rewind", Zero, Ok(Rewind(root)))

\* the argument under which `last` records a direction
DirectionArg(direction) == IF direction = "Forward" THEN Zero ELSE One

\* Tween::set_direction(direction)
DoSetDirection(direction) ==
    /\ ~panicked
    /\ root.kind = "Tween"
    /\ Called("set_direction", DirectionArg(direction),
              Ok(TweenSetDirection(root, direction)))

\* Sequence::then(tween), on a sequence under construction
DoThen(tween) ==
    /\ ~panicked
    /\ root.kind = "Sequence"
    /\ last.op \in {"new", "then"}
    /\ Len(root.tweens) < MaxLen
    /\ root' = SequenceThen(root, tween)
    /\ last' = [NoCall EXCEPT !.op = "then"]
    /\ UNCHANGED <<target, panicked, ticked, sent, calls, resolution>>

\* Sequence::index()
DoIndex ==
    /\ ~panicked
    /\ root.kind = "Sequence"
    /\ panicked' = SequenceIndexPanics(root)
    /\ last' = [op |-> "index", arg |-> Zero,
                state |-> IF SequenceIndexPanics(root) THEN "Panic" ELSE "None"]
    /\ UNCHANGED <<root, target, ticked, sent, calls, resolution>>

\* the operations of the Tweenable contract, on any kind of node
Contract ==
    \/ \E delta \in Deltas : DoTick(delta)
    \/ \E progress \in RatiosOf(Duration(root)) : DoSetProgress(progress)
    \/ \E speed \in Speeds : DoSetSpeed(speed)
    \/ DoRewind

\* the operations on a Sequence: the contract, then() and index()
Composed ==
    \/ Contract
    \/ \E tween \in Kids : DoThen(tween)
    \/ DoIndex

\* the operations on a Tween: the contract and set_direction()
Directed ==
    \/ Contract
    \/ \E direction \in Directions : DoSetDirection(direction)

Next ==
    \/ Contract
    \/ \E tween \in Kids : DoThen(tween)
    \/ DoIndex
    \/ \E direction \in Directions : DoSetDirection(direction)

Spec == Init /\ [][Next]_vars

\* a Tween alone
SpecTween == InitOf(TweenRoots) /\ [][Contract]_vars

\* a Tween alone, with changes of direction
SpecTweenDirected == InitOf(TweenRoots) /\ [][Directed]_vars

\* a Delay alone
SpecDelay == InitOf(DelayRoots) /\ [][Contract]_vars

\* a Tween or a Delay alone
SpecLeaf == InitOf(TweenRoots \cup DelayRoots) /\ [][Contract]_vars

\* the tweens and the delays, and a Sequence and a Tracks of two different children
KindRoots ==
    TweenRoots \cup DelayRoots
        \cup {SequenceNew(<<KidA, KidB>>), TracksNew(<<KidA, KidB>>)}

\* a tweenable of each kind, under the contract and set_direction
SpecKinds == InitOf(KindRoots) /\ [][Directed]_vars

\* a Sequence of Once tweens
SpecSequence == InitOf(SequenceRoots) /\ [][Composed]_vars

\* a Tracks of Once tweens
SpecTracks == InitOf(TracksRoots) /\ [][Contract]_vars

\* a Sequence that is built and then only sought and asked for its index
Sought ==
    \/ \E progress \in RatiosOf(Duration(root)) : DoSetProgress(progress)
    \/ \E tween \in Kids : DoThen(tween)
    \/ DoIndex

\* a Sequence of Once tweens, in time units shorter than 1e-5 s
SpecSequenceFine == InitAt(SequenceRoots, FineTicksPerSec) /\ [][Sought]_vars

\* a Loop or PingPong tween that is only ticked
Looped ==
    \E delta \in (IF Duration(root) >= LongDuration THEN LongDeltas ELSE Deltas) :
        DoTick(delta)

SpecTweenLooped == InitOf(LoopRoots) /\ [][Looped]_vars

\* a Sequence that is built and then only ticked, by every delta up to MaxTicked
Played ==
    \/ \E delta \in 0 .. MaxTicked : DoTick(delta)
    \/ \E tween \in Kids : DoThen(tween)

SpecSequencePlayed == InitOf(SequenceRoots) /\ [][Played]_vars

\* a child that loops a counted number of times
KidLoop(n) == TweenNew("Linear", LoopTimes(n), 2, "pos")

\* sequences whose first child loops a counted number of times
LoopedSequenceRoots ==
    {SequenceNew(<<first, then>>) : first \in {KidLoop(1), KidLoop(2)}, then \in Kids}

\* a tweenable that is only ticked, by every delta up to MaxTicked
Ticking == \E delta \in 0 .. MaxTicked : DoTick(delta)

SpecSequenceLooped == InitOf(LoopedSequenceRoots) /\ [][Ticking]_vars

\* leaves that end: Once, LoopTimes(n), PingPongTimes(n) and Delay, of positive duration
\* a child that runs a counted number of times over three units
KidTimes(tweening_type) == TweenNew("Linear", tweening_type, 3, "rot")

BoundedKids == Kids \cup {KidTimes(LoopTimes(2)), KidTimes(PingPongTimes(2)), DelayNew(2)}

BoundedRoots ==
    {SequenceNew(<<a, b>>) : a, b \in BoundedKids}
    \cup {SequenceNew(<<KidTimes(LoopTimes(2)), DelayNew(2), KidB>>)}
    \cup {TracksNew(<<a, b>>) : a, b \in BoundedKids}

\* a tweenable ticked by its animator once a frame, with the same positive delta in
\* every frame, and touched by nothing else
Stepping ==
    \E delta \in Deltas \ {0} :
        /\ last.op = "new" \/ last.arg = Rat(delta, 1)
        /\ DoTick(delta)

SpecStepping == InitOf(BoundedRoots) /\ [][Stepping]_vars

\* the values of the variables after a tick by delta
AfterTick(delta) ==
    LET r == Ticked(delta)
        t == IF ticked >= 0 /\ ticked + delta <= TickedCap(root)
             THEN ticked + delta ELSE -1
    IN  <<IF r.env.panicked THEN root ELSE r.node,
          IF r.env.panicked THEN target ELSE r.env.target,
          [op |-> "tick", arg |-> Rat(delta, 1),
           state |-> IF r.env.panicked THEN "Panic" ELSE r.state],
          r.env.panicked,
          t,
          IF t >= 0
          THEN [events |-> sent.events + r.env.events,
                callbacks |-> sent.callbacks + r.env.callbacks]
          ELSE NoneSent,
          calls,
          resolution>>

\* the next frame's tick can be taken and changes something
CanStep ==
    /\ ~panicked
    /\ \E delta \in Deltas \ {0} :
          /\ last.op = "new" \/ last.arg = Rat(delta, 1)
          /\ Completions(Ticked(delta).node) <= MaxCompletions
          /\ AfterTick(delta) # vars

\* every frame comes: weak fairness of Stepping, WF_vars(Stepping), with the states
\* in which Stepping is enabled given by CanStep
FramesKeepComing == []<>(~CanStep) \/ []<><<Stepping>>_vars

SpecSteppingFair == SpecStepping /\ FramesKeepComing

(***************************************************************************)
(* The claims.                                                             *)
(***************************************************************************)
RECURSIVE StartOf(_, _)
\* the time at which child k (counted from 0) of a sequence starts
StartOf(tweens, k) ==
    IF k = 0 THEN 0 ELSE StartOf(tweens, k - 1) + Duration(tweens[k])

\* the child (counted from 0) whose time span [start, start + duration) contains t
ChildAt(tweens, t) ==
    CHOOSE k \in 0 .. Len(tweens) - 1 :
        StartOf(tweens, k) <= t /\ t < StartOf(tweens, k + 1)

OnceTweens(tweens) ==
    \A i \in 1 .. Len(tweens) :
        tweens[i].kind = "Tween" /\ tweens[i].tweening_type = Once

\* C1: a Sequence of Once tweens that was only ticked, by deltas summing to t below
\* its total duration, has as active index the child whose span contains t, that
\* child's elapsed time is t minus the durations before it, and every earlier child
\* is at progress 1, however t was split into ticks.
C1_SequenceFollowsTickedTime ==
    ( /\ root.kind = "Sequence"
      /\ OnceTweens(root.tweens)
      /\ ticked >= 0
      /\ ticked < SumDurations(root.tweens, 1) )
    => LET k == ChildAt(root.tweens, ticked)
       IN  /\ ~panicked
           /\ root.index = k
           /\ SequenceIndex(root) = k
           /\ root.tweens[k + 1].clock.elapsed = ticked - StartOf(root.tweens, k)
           /\ \A j \in 1 .. k : Progress(root.tweens[j]) = One

\* one tick from the initial state crossed two child boundaries into the third child
C1_Witness ==
    /\ root.kind = "Sequence"
    /\ Len(root.tweens) = 3
    /\ OnceTweens(root.tweens)
    /\ last = [op |-> "tick", arg |-> Rat(5, 1), state |-> "Active"]
    /\ ticked = 5
    /\ root.index = 2
    /\ root.tweens[3].clock.elapsed = 1

\* C2: on a Tween with the event and the callback set that was only ticked, the
\* events sent and the callbacks invoked each number times_completed().
C2_OneNotificationPerCompletion ==
    ( /\ root.kind = "Tween"
      /\ root.event_data
      /\ root.on_completed
      /\ ticked >= 0 )
    => /\ sent.events = root.times_completed
       /\ sent.callbacks = root.times_completed

\* C3: tick(Duration::ZERO) right after set_progress(r), r in [0,1], on a Tween
\* hands the lens the eased ratio r (1 - r when the direction is Backward).
C3_ZeroTickAppliesSoughtRatio ==
    [][ ( /\ root.kind = "Tween"
          /\ last.op = "set_progress"
          /\ last.state # "Panic"
          /\ RLe(Zero, last.arg)
          /\ RLe(last.arg, One)
          /\ DoTick(0) )
        => target'[root.lens] =
               Sample(root.ease_function,
                      IF root.direction = "Backward"
                      THEN RSub(One, last.arg) ELSE last.arg) ]_vars

\* C4: tick(Duration::ZERO) leaves progress(), times_completed(), the direction of
\* a Tween and the index of a Sequence as they were, sends no event and invokes no
\* callback, in every reachable state of every kind of tweenable.
C4_ZeroTickChangesNothing ==
    [][ DoTick(0)
        => /\ ~panicked'
           /\ Progress(root') = Progress(root)
           /\ TimesCompleted(root') = TimesCompleted(root)
           /\ (root.kind = "Tween" => root'.direction = root.direction)
           /\ (root.kind = "Sequence" => root'.index = root.index)
           /\ Ticked(0).env.events = 0
           /\ Ticked(0).env.callbacks = 0 ]_vars

\* C5: after a set_progress that seeks a Sequence of Once tweens back to strictly
\* inside a child k it had played past, a tick by less than what child k has left
\* returns Active and leaves the index at k.
C5_SeekBackLeavesNoStaleCompletion ==
    [][ \A delta \in Deltas :
          ( /\ root.kind = "Sequence"
            /\ OnceTweens(root.tweens)
            /\ last.op = "set_progress"
            /\ root.index < Len(root.tweens)
            /\ root.tweens[root.index + 1].times_completed > 0
            /\ root.tweens[root.index + 1].clock.elapsed > 0
            /\ root.tweens[root.index + 1].clock.elapsed + delta
                   < root.tweens[root.index + 1].clock.duration
            /\ DoTick(delta) )
          => /\ last'.state = "Active"
             /\ root'.index = root.index ]_vars

\* C6: the state a Once tween's tick returns is Active when progress() is below 1
\* after the tick, and Completed only when progress() is 1.
C6_OnceStateFollowsProgress ==
    ( /\ root.kind = "Tween"
      /\ root.tweening_type = Once
      /\ last.op = "tick" )
    => /\ (RLt(Progress(root), One) => last.state = "Active")
       /\ (last.state = "Completed" => Progress(root) = One)

\* C7: after a tick of a LoopTimes(n) or PingPongTimes(n) tween returned Completed,
\* the next tick returns Completed, leaves times_completed(), progress(), the
\* direction and the target as they were and sends no event; times_completed()
\* stays at most n.
C7_CompletedTimesTweenIdles ==
    [][ \A delta \in Deltas :
          ( /\ root.kind = "Tween"
            /\ root.tweening_type.t \in {"LoopTimes", "PingPongTimes"}
            /\ last.op = "tick"
            /\ last.state = "Completed"
            /\ DoTick(delta) )
          => /\ last'.state = "Completed"
             /\ root'.times_completed = root.times_completed
             /\ root'.times_completed <= root.tweening_type.n
             /\ Progress(root') = Progress(root)
             /\ root'.direction = root.direction
             /\ target' = target
             /\ Ticked(delta).env.events = 0 ]_vars

\* the fractional wrap of a ratio into [0, 1)
Wrap(r) == Norm(Rat(r.n - r.d * (r.n \div r.d), r.d))

\* C8: set_progress(r) never fails, whatever the ratio; on a looping Tween it leaves
\* progress() at the fractional wrap of r, on a Delay and a Once Tween at r clamped
\* to [0,1].
C8_SetProgressIsTotal ==
    last.op = "set_progress"
    => /\ last.state # "Panic"
       /\ (root.kind = "Tween" /\ root.tweening_type # Once
              => Progress(root) = Wrap(last.arg))
       /\ (root.kind = "Delay" \/ (root.kind = "Tween" /\ root.tweening_type = Once)
              => Progress(root) = Clamp01(last.arg))

\* C9: no Sequence and no Tracks a public constructor returned has zero children.
C9_NoEmptyComposite ==
    /\ (root.kind = "Sequence" /\ last.op = "new" => Len(root.tweens) > 0)
    /\ (root.kind = "Tracks" /\ last.op = "new" => Len(root.tracks) > 0)

\* C10: the duration() of a Sequence is the sum of its children's duration().
C10_SequenceDurationIsSum ==
    root.kind = "Sequence" => root.duration = SumDurations(root.tweens, 1)

\* C11: the duration() of a Tracks is the largest of its children's duration().
C11_TracksDurationIsMax ==
    root.kind = "Tracks" => root.duration = MaxDurations(root.tracks, 1)

\* C12: a Sequence of Once tweens that was only ticked returned Active from its
\* last tick while the deltas sum to less than its total duration, a tick that
\* lands on an inner child boundary included, and Completed once they sum to the
\* total duration or more, with the lens of the last child at its end value.
C12_SequenceCompletesAtTotal ==
    ( /\ root.kind = "Sequence"
      /\ OnceTweens(root.tweens)
      /\ last.op = "tick"
      /\ ticked >= 0 )
    => LET total == SumDurations(root.tweens, 1)
           n == Len(root.tweens)
       IN  /\ ~panicked
           /\ (ticked < total => last.state = "Active")
           /\ (ticked >= total =>
                  /\ last.state = "Completed"
                  /\ (n > 0 => target[root.tweens[n].lens] = One))

\* a sequence of two children was ticked up to its total duration, the last
\* tick by one unit, and that tick returned Completed with the lens at its end
C12_Witness ==
    /\ root.kind = "Sequence"
    /\ Len(root.tweens) = 2
    /\ OnceTweens(root.tweens)
    /\ ticked = SumDurations(root.tweens, 1)
    /\ last = [op |-> "tick", arg |-> Rat(1, 1), state |-> "Completed"]
    /\ root.index = 2
    /\ target[root.tweens[2].lens] = One

\* C13: on a Once tween that was only ticked, a tick never lowers progress();
\* the tick at which the deltas reach the duration leaves progress() at 1 and
\* times_completed() at 1 (0 before it) and returns Completed; every tick after
\* it returns Completed, applies no lens, leaves the target and the tween as they
\* were and sends no event.
C13_OnceTweenRunsToItsEnd ==
    [][ \A delta \in Deltas :
          ( /\ root.kind = "Tween"
            /\ root.tweening_type = Once
            /\ ticked >= 0
            /\ DoTick(delta) )
          => /\ ~panicked'
             /\ RLe(Progress(root), Progress(root'))
             /\ (ticked + delta < root.clock.duration =>
                    /\ root'.times_completed = 0
                    /\ RLt(Progress(root'), One)
                    /\ last'.state = "Active")
             /\ (ticked + delta >= root.clock.duration =>
                    /\ root'.times_completed = 1
                    /\ Progress(root') = One
                    /\ last'.state = "Completed")
             /\ (ticked >= root.clock.duration =>
                    /\ Ticked(delta).env.log = <<>>
                    /\ Ticked(delta).env.events = 0
                    /\ Ticked(delta).env.callbacks = 0
                    /\ target' = target
                    /\ root' = root) ]_vars

\* a Once tween of duration 2 was ticked to its end and then ticked again by 2
C13_Witness ==
    /\ root.kind = "Tween"
    /\ root.tweening_type = Once
    /\ root.clock.duration = 2
    /\ ticked = 4
    /\ last = [op |-> "tick", arg |-> Rat(2, 1), state |-> "Completed"]
    /\ root.times_completed = 1
    /\ Progress(root) = One
    /\ target[root.lens] # Unset

LoopsForever(node) ==
    node.kind = "Tween" /\ node.tweening_type \in {Loop, PingPong}

\* a tick by delta of a looping clock spans at least one period and ends within
\* 1e-5 of the duration before the end of a period
EndsJustShort(c, delta) ==
    /\ c.elapsed + delta >= c.duration
    /\ c.duration - ((c.elapsed + delta) % c.duration) <= (c.duration \div EpsDen)

C15_UnboundedLoopNeverCompletes ==
    LoopsForever(root)
    => /\ IsLooping(root)
       /\ (last.op = "tick" => last.state = "Active")

\* a tick of a Loop or PingPong tween that has completed three times, after a
\* set_progress, set_speed or rewind, returned Active
C15_Witness ==
    /\ LoopsForever(root)
    /\ calls > 0
    /\ root.times_completed = 3
    /\ last.op = "tick"
    /\ last.state = "Active"

\* the direction a tween that was only ticked was constructed with: the one with
\* which its fresh copy is one of the tweens constructed
StartDirection(tw) ==
    CHOOSE d \in {"Forward", "Backward"} :
        [tw EXCEPT !.direction = d, !.times_completed = 0, !.clock.elapsed = 0]
            \in TweenRoots

\* C16: on a tween that was only ticked, a PingPong or PingPongTimes tween has
\* the direction it was constructed with when times_completed() is even and the
\* opposite one when it is odd; a Once, Loop or LoopTimes tween has the direction
\* it was constructed with.
C16_DirectionFollowsParity ==
    (root.kind = "Tween" /\ ticked >= 0)
    => IF /\ root.tweening_type.t \in {"PingPong", "PingPongTimes"}
          /\ root.times_completed % 2 = 1
       THEN root.direction # StartDirection(root)
       ELSE root.direction = StartDirection(root)

\* one tick of a PingPong tween of duration 2 by 5 units spanned two completions
\* and left the direction as it was constructed
C16_Witness ==
    /\ root.kind = "Tween"
    /\ root.tweening_type = PingPong
    /\ ticked = 5
    /\ last = [op |-> "tick", arg |-> Rat(5, 1), state |-> "Active"]
    /\ root.times_completed = 2
    /\ root.direction = StartDirection(root)

C18_RewindResets ==
    [][ DoRewind
        => /\ ~panicked'
           /\ Progress(root') = Zero
           /\ TimesCompleted(root') = 0
           /\ (root.kind = "Tween" => root'.direction = root.direction) ]_vars

RECURSIVE AsConstructed(_)
\* the tweenable as its constructors return it, with the direction its tweens
\* have now: Tween::new with set_direction, set_completed and
\* set_completed_event, Delay::new, Sequence::new or with_capacity, Tracks::new
AsConstructed(node) ==
    CASE node.kind = "Tween" ->
             WithNotifications(
                 WithDirection(TweenNew(node.ease_function, node.tweening_type,
                                        node.clock.original, node.lens),
                               node.direction),
                 node.on_completed)
      [] node.kind = "Delay" -> DelayNew(node.original)
      [] node.kind = "Sequence" ->
             IF Len(node.tweens) = 0 THEN SequenceWithCapacity
             ELSE SequenceNew([i \in 1 .. Len(node.tweens) |->
                                  AsConstructed(node.tweens[i])])
      [] OTHER ->
             TracksNew([i \in 1 .. Len(node.tracks) |-> AsConstructed(node.tracks[i])])

RECURSIVE SpeedOf(_)
\* the speed last set on the tweenable: its duration over its original duration
SpeedOf(node) ==
    CASE node.kind = "Tween" -> Norm(Rat(node.clock.duration, node.clock.original))
      [] node.kind = "Delay" -> Norm(Rat(node.timer.duration, node.original))
      [] node.kind = "Sequence" ->
             IF Len(node.tweens) = 0 THEN One ELSE SpeedOf(node.tweens[1])
      [] OTHER -> SpeedOf(node.tracks[1])

\* a freshly constructed tweenable with the same speed and the same direction
Fresh(node) == SetSpeed(AsConstructed(node), SpeedOf(node)).node

\* C19: rewind() leaves a tweenable in the state of a freshly constructed one with
\* the same speed and the same direction, so that every tick after it returns and
\* does what it would on the fresh one, and tick(Duration::ZERO) after it returns
\* Active.
C19_RewindIsFreshStart ==
    [][ DoRewind
        => /\ ~panicked'
           /\ root' = Fresh(root)
           /\ Tick(root', 0, NoEffects(target')).state = "Active" ]_vars

\* the children have the durations they were constructed with
AtConfiguredSpeed(tweens) ==
    \A i \in 1 .. Len(tweens) : tweens[i].clock.duration = tweens[i].clock.original

\* the first child (counted from 0) whose span ends strictly after the ratio r of
\* the total duration, the last child when there is none
ChildAfter(tweens, r) ==
    LET at == RMul(r, Rat(StartOf(tweens, Len(tweens)), 1))
        later == {k \in 0 .. Len(tweens) - 1 : RLt(at, Rat(StartOf(tweens, k + 1), 1))}
    IN  IF later = {} THEN Len(tweens) - 1
        ELSE CHOOSE k \in later : \A j \in later : k <= j

\* C20 as stated: after set_progress(r), r in [0,1], on a Sequence of Once tweens,
\* index() is the first child whose span ends strictly after r x the total
\* duration (the last child when there is none) and current().duration() is the
\* duration that child was constructed with.
C20_SeekIndexIsFirstLaterEnd ==
    ( /\ root.kind = "Sequence"
      /\ Len(root.tweens) > 0
      /\ OnceTweens(root.tweens)
      /\ AtConfiguredSpeed(root.tweens)
      /\ last.op = "set_progress"
      /\ RLe(Zero, last.arg)
      /\ RLe(last.arg, One) )
    => /\ ~panicked
       /\ SequenceIndex(root) = ChildAfter(root.tweens, last.arg)
       /\ Duration(root.tweens[SequenceIndex(root) + 1])
              = root.tweens[ChildAfter(root.tweens, last.arg) + 1].clock.original

\* the seconds from the ratio r of the total duration to the end of child k
LeftOf(tweens, k, r) ==
    LET at == RMul(r, Rat(StartOf(tweens, Len(tweens)), 1))
    IN  RMul(RSub(Rat(StartOf(tweens, k + 1), 1), at), Rat(1, resolution))

\* the child a seek to the ratio r lands on when a point within 1e-5 s of a
\* child's end counts as that end: the first child k that does not end more than
\* 1e-5 s before the point, or the child after it when k ends no more than
\* 1e-5 s after the point; child 0 below the ratio 1e-5 and the last child above
\* the ratio 1 - 1e-5
ChildWithinTolerance(tweens, r) ==
    LET reached == {k \in 0 .. Len(tweens) - 1 :
                        ~RLt(LeftOf(tweens, k, r), Rat(-1, EpsDen))}
        k == CHOOSE i \in reached : \A j \in reached : i <= j
    IN  IF RLt(r, Eps) THEN 0
        ELSE IF RLt(RSub(One, Eps), r) THEN Len(tweens) - 1
        ELSE IF RLt(Eps, LeftOf(tweens, k, r)) THEN k
        ELSE Min(k + 1, Len(tweens) - 1)

\* C20 (amended): after set_progress(r), r in [0,1], on a Sequence of Once tweens,
\* index() is the first child that does not end more than 1e-5 s before r x the
\* total duration, or the child after it (the last child at most) when it ends no
\* more than 1e-5 s after that point; below the ratio 1e-5 it is child 0 and above
\* 1 - 1e-5 the last child. current().duration() is the duration that child was
\* constructed with.
C20_SeekIndexWithinTolerance ==
    ( /\ root.kind = "Sequence"
      /\ Len(root.tweens) > 0
      /\ OnceTweens(root.tweens)
      /\ AtConfiguredSpeed(root.tweens)
      /\ last.op = "set_progress"
      /\ RLe(Zero, last.arg)
      /\ RLe(last.arg, One) )
    => /\ ~panicked
       /\ SequenceIndex(root) = ChildWithinTolerance(root.tweens, last.arg)
       /\ Duration(root.tweens[SequenceIndex(root) + 1])
              = root.tweens[ChildWithinTolerance(root.tweens, last.arg) + 1].clock.original

\* C20 witness: a seek, after an earlier seek, to a point less than 1e-5 s before
\* the end of the first of several children left the sequence at the second child
C20_Witness ==
    /\ root.kind = "Sequence"
    /\ Len(root.tweens) > 1
    /\ OnceTweens(root.tweens)
    /\ AtConfiguredSpeed(root.tweens)
    /\ last.op = "set_progress"
    /\ calls > 1
    /\ ~panicked
    /\ RLt(Zero, LeftOf(root.tweens, 0, last.arg))
    /\ RLt(LeftOf(root.tweens, 0, last.arg), Eps)
    /\ ChildAfter(root.tweens, last.arg) = 0
    /\ SequenceIndex(root) = 1

\* C21: Sequence.times_completed() is 0 or 1; after set_progress(r) it is 1 exactly
\* when r is 1 (or clamps to 1), and after a tick it is 1 exactly when that tick
\* returned Completed.
C21_SequenceCountsItsEnd ==
    (root.kind = "Sequence" /\ ~panicked)
    => /\ TimesCompleted(root) \in {0, 1}
       /\ last.op = "set_progress"
            => (TimesCompleted(root) = 1 <=> RLe(One, last.arg))
       /\ last.op = "tick"
            => (TimesCompleted(root) = 1 <=> last.state = "Completed")

\* a node of a kind that does not loop: a Once Tween, a Sequence or a Tracks
NonLooping(node) ==
    \/ node.kind \in {"Sequence", "Tracks"}
    \/ node.kind = "Tween" /\ node.tweening_type = Once

\* C22: on a Once Tween, a Sequence or a Tracks, set_progress(r) does not fail for
\* any r, below 0 and above 1 included, and progress() is then r clamped to [0,1].
C22_SetProgressClamps ==
    (NonLooping(root) /\ last.op = "set_progress")
    => /\ ~panicked
       /\ Progress(root) = Clamp01(last.arg)

\* what tick(delta) on child i of a Tracks does to that child and returns
TrackTicked(tr, i, delta) == Tick(tr.tracks[i], delta, NoEffects(target))

\* C23: Tracks.tick gives every child the whole delta, returns Completed exactly
\* when every child returned Completed on that call and Active when some child
\* returned Active, and leaves times_completed() at 1 exactly when it returned
\* Completed; times_completed() is 0 before any tick and after rewind, and no other
\* call changes it.
C23_TracksTickIsTheConjunction ==
    [][ (root.kind = "Tracks" /\ ~panicked')
        => /\ last.op = "new" => TimesCompleted(root) = 0
           /\ last'.op = "tick"
                => LET delta == last'.arg.n
                       n == Len(root.tracks)
                   IN  /\ \A i \in 1 .. n :
                             root'.tracks[i] = TrackTicked(root, i, delta).node
                       /\ last'.state = "Completed"
                             <=> \A i \in 1 .. n :
                                     TrackTicked(root, i, delta).state = "Completed"
                       /\ last'.state = "Active"
                             <=> \E i \in 1 .. n :
                                     TrackTicked(root, i, delta).state = "Active"
                       /\ TimesCompleted(root')
                             = IF last'.state = "Completed" THEN 1 ELSE 0
           /\ last'.op = "rewind" => TimesCompleted(root') = 0
           /\ last'.op \in {"set_progress", "set_speed"}
                => TimesCompleted(root') = TimesCompleted(root)
      ]_vars

\* C23 witness: a tick of two tracks returned Active with the shorter child completed
\* and the longer one still running
C23_Witness ==
    /\ root.kind = "Tracks"
    /\ Len(root.tracks) = 2
    /\ last.op = "tick"
    /\ last.state = "Active"
    /\ \E i \in 1 .. 2 : TimesCompleted(root.tracks[i]) = 1
    /\ \E i \in 1 .. 2 : TimesCompleted(root.tracks[i]) = 0
    /\ TimesCompleted(root) = 0

\* C24: on a Tracks of Once tweens, tick(Duration::ZERO) right after set_progress(r)
\* returns Completed and leaves times_completed() at 1 when r clamps to 1, and
\* returns Active and leaves it at 0 when r x duration is below the longest child's
\* duration, whatever was called before.
C24_TracksZeroTickFollowsRatio ==
    [][ ( /\ root.kind = "Tracks"
          /\ OnceTweens(root.tracks)
          /\ last.op = "set_progress"
          /\ ~panicked
          /\ last'.op = "tick"
          /\ last'.arg = Zero )
        => /\ ~panicked'
           /\ RLe(One, last.arg)
                => last'.state = "Completed" /\ TimesCompleted(root') = 1
           /\ MulF32(root.duration, Clamp01(last.arg)) < MaxDurations(root.tracks, 1)
                => last'.state = "Active" /\ TimesCompleted(root') = 0
      ]_vars

\* C25: a Delay that was only ticked, by deltas summing to t, returned Active from
\* its last tick when t is below its duration and Completed when t has reached it;
\* times_completed() is 0 below the duration and 1 from it on, and never another
\* value in any state; no tick of a Delay writes the target, sends an event or
\* invokes a callback.
C25_DelayCompletesAtItsDuration ==
    root.kind = "Delay"
    => /\ ~panicked => TimesCompleted(root) \in {0, 1}
       /\ target = [l \in Lenses |-> Unset]
       /\ sent = NoneSent
       /\ \A delta \in Deltas : Ticked(delta).env = NoEffects(target)
       /\ ticked >= 0
            => /\ ~panicked
               /\ TimesCompleted(root) = IF ticked < Duration(root) THEN 0 ELSE 1
               /\ last.op = "tick"
                    => last.state = IF ticked < Duration(root)
                                    THEN "Active" ELSE "Completed"

\* C25 witness: a Delay reached its duration on one tick and was ticked again
C25_Witness ==
    /\ root.kind = "Delay"
    /\ ticked > Duration(root)
    /\ last.op = "tick"
    /\ last.arg = One
    /\ last.state = "Completed"
    /\ TimesCompleted(root) = 1

Original(node) == IF node.kind = "Tween" THEN node.clock.original ELSE node.original

\* C27: on a Tween or a Delay the duration is the constructed one until set_speed is
\* called, no operation changes the constructed duration that is kept, and after
\* set_speed(s) duration() is the constructed duration times s whatever was called
\* before: set_speed(s) after set_speed(s) changes nothing and set_speed(1) gives
\* the constructed duration back.
C27_SetSpeedScalesTheOriginal ==
    [][ (root.kind \in {"Tween", "Delay"} /\ ~panicked /\ ~panicked')
        => /\ last.op = "new" => Duration(root) = Original(root)
           /\ Original(root') = Original(root)
           /\ last'.op # "set_speed" => Duration(root') = Duration(root)
           /\ last'.op = "set_speed"
                => /\ Duration(root') * last'.arg.d = Original(root) * last'.arg.n
                   /\ (last.op = "set_speed" /\ last.arg = last'.arg)
                        => Duration(root') = Duration(root)
                   /\ last'.arg = One => Duration(root') = Original(root)
      ]_vars

\* C27 witness: a Delay of 2 units was slowed to half speed, ticked past its
\* constructed duration, and set to half speed a second time: its duration is still 4
C27_Witness ==
    /\ root.kind = "Delay"
    /\ root.original = 2
    /\ last.op = "set_speed"
    /\ last.arg = Rat(2, 1)
    /\ calls = 2
    /\ root.timer.elapsed = 3
    /\ Duration(root) = 4

\* the ratio a tween in this state hands to its easing curve and lens: progress()
\* under Forward and 1 - progress() under Backward
DirectedRatio(tw) ==
    IF tw.direction = "Forward" THEN Progress(tw) ELSE RSub(One, Progress(tw))

\* C28: Tween.set_direction(d) sets the direction and changes nothing else, neither
\* progress() nor times_completed() nor the target; on the tick after it the elapsed
\* time still grows by delta (progress() by delta / duration) while the end of the
\* duration is not reached, and the target gets the value of the easing curve at
\* progress() under Forward and at 1 - progress() under Backward.
C28_SetDirectionOnlyTurns ==
    [][ (root.kind = "Tween" /\ ~panicked)
        => /\ last'.op = "set_direction"
                => /\ ~panicked'
                   /\ root' = [root EXCEPT !.direction =
                                  IF last'.arg = Zero THEN "Forward" ELSE "Backward"]
                   /\ Progress(root') = Progress(root)
                   /\ TimesCompleted(root') = TimesCompleted(root)
                   /\ target' = target
           /\ (last.op = "set_direction" /\ last'.op = "tick")
                => /\ ~panicked'
                   /\ root.clock.elapsed + last'.arg.n < Duration(root)
                        => root'.clock.elapsed = root.clock.elapsed + last'.arg.n
                   /\ target'[root.lens]
                        = Sample(root.ease_function, DirectedRatio(root'))
      ]_vars

\* C29: after every operation on a Tween (tick, set_progress, set_speed, rewind) the
\* elapsed time of its clock is at least 0 and at most the duration.
C29_ElapsedWithinDuration ==
    root.kind = "Tween"
    => /\ 0 <= root.clock.elapsed
       /\ root.clock.elapsed <= root.clock.duration

\* C29 witness: a Once tween of 2 units ticked by 5 units stopped at its duration
C29_Witness ==
    /\ root.kind = "Tween"
    /\ root.tweening_type = Once
    /\ last = [op |-> "tick", arg |-> Rat(5, 1), state |-> "Completed"]
    /\ root.clock.elapsed = root.clock.duration
    /\ root.times_completed = 1

\* C30: a Tween with the policy Loop, PingPong, LoopTimes or PingPongTimes has
\* progress() at least 0 and below 1 after every tick, set_progress (1.0 included),
\* set_speed and rewind.
C30_LoopingProgressBelowOne ==
    (root.kind = "Tween" /\ root.tweening_type # Once)
    => /\ RLe(Zero, Progress(root))
       /\ RLt(Progress(root), One)

\* C30 witness: set_progress(1.0) as the first call on a looping tween that had
\* completed a period left progress() at 0
C30_Witness ==
    /\ root.kind = "Tween"
    /\ root.tweening_type # Once
    /\ last.op = "set_progress"
    /\ last.arg = One
    /\ calls = 1
    /\ ~panicked
    /\ root.times_completed > 0
    /\ Progress(root) = Zero

\* C31: times_completed() of a Tween never decreases across tick, set_progress,
\* set_speed and set_direction; a step that lowers it is a rewind, and rewind
\* leaves it at 0.
C31_CompletionsOnlyGrow ==
    [][ root.kind = "Tween"
        => /\ last'.op # "rewind" => root'.times_completed >= root.times_completed
           /\ root'.times_completed < root.times_completed => last'.op = "rewind"
           /\ last'.op = "rewind" => root'.times_completed = 0
      ]_vars

\* C31 witness: a seek back to the start of a Once tween that had completed left
\* times_completed() at 1
C31_Witness ==
    /\ root.kind = "Tween"
    /\ root.tweening_type = Once
    /\ last.op = "set_progress"
    /\ last.arg = Zero
    /\ ~panicked
    /\ root.clock.elapsed = 0
    /\ root.times_completed = 1

\* C32: once a tick of a Tween, a Delay, a Sequence or a Tracks has returned
\* Completed, a tick by any delta returns Completed again, also after a
\* set_direction on a Tween; a tick of a completed Sequence changes none of its
\* children, does not write the target and sends nothing; and no tick of a Sequence
\* lowers its index.
C32_CompletedIsAbsorbing ==
    /\ (last.op = "tick" /\ last.state = "Completed")
         => \A delta \in Deltas :
              /\ Ticked(delta).state = "Completed"
              /\ ~Ticked(delta).env.panicked
              /\ root.kind = "Tween"
                   => \A direction \in Directions :
                        Tick(TweenSetDirection(root, direction), delta,
                             NoEffects(target)).state = "Completed"
              /\ root.kind = "Sequence"
                   => /\ Ticked(delta).node.tweens = root.tweens
                      /\ Ticked(delta).env = NoEffects(target)
    /\ (root.kind = "Sequence" /\ ~panicked)
         => \A delta \in Deltas : Ticked(delta).node.index >= root.index

\* C32 witness: a Sequence of two children that was ticked to its end returned
\* Completed again on a further tick
C32_Witness ==
    /\ root.kind = "Sequence"
    /\ Len(root.tweens) = 2
    /\ root.index = 2
    /\ ticked = SumDurations(root.tweens, 1)
    /\ last = [op |-> "tick", arg |-> Zero, state |-> "Completed"]

\* the notices a tick that completed appends after the lens: the event if the tween
\* has event data, then the callback if it has one, each with the tick's entity
NoticesOf(tw, entity) ==
    (IF tw.event_data THEN <<Notice("event", tw.lens, Zero, entity)>> ELSE <<>>)
    \o (IF tw.on_completed
        THEN <<Notice("callback", tw.lens, Rat(tw.times_completed, 1), entity)>>
        ELSE <<>>)

\* C33: within one Tween.tick that completes at least once, times_completed and the
\* direction are updated first, then the lens is applied to the target, then the
\* event is sent, then the callback is invoked: the lens gets the value of the
\* easing curve under the direction and the progress the tick ends with, the
\* callback observes a times_completed() that includes this tick's completions,
\* and the event and the callback receive the entity passed to this tick.
C33_TickOrdersItsSteps ==
    root.kind = "Tween"
      => \A delta \in Deltas, entity \in Entities :
           LET r == Tick(root, delta, OnEntity(NoEffects(target), entity))
           IN  r.node.times_completed > root.times_completed
                 => /\ r.env.log
                         = <<Entry("lerp", root.lens,
                                   Sample(root.ease_function, DirectedRatio(r.node)))>>
                           \o NoticesOf(r.node, entity)
                    /\ r.env.target[root.lens]
                         = Sample(root.ease_function, DirectedRatio(r.node))
                    /\ r.env.events = (IF root.event_data THEN 1 ELSE 0)
                    /\ r.env.callbacks = (IF root.on_completed THEN 1 ELSE 0)

\* C33 witness: a PingPong tween with an event and a callback whose last tick of
\* five units crossed two ends of its duration
C33_Witness ==
    /\ root.kind = "Tween"
    /\ root.tweening_type = PingPong
    /\ root.event_data /\ root.on_completed
    /\ last.op = "tick" /\ last.arg = Rat(5, 1)
    /\ ticked = 5
    /\ root.times_completed = 2
    /\ sent.events = 1 /\ sent.callbacks = 1
    /\ Len(Tick(root, 2, OnEntity(NoEffects(target), 1)).env.log) = 3

\* the ratios strictly inside a child of the given duration, by whole units
PartialRatios(d) == {Norm(Rat(k, d)) : k \in 1 .. d - 1}

\* the child was positioned by set_progress with a ratio strictly between 0 and 1
SetPartly(before, after) ==
    \E p \in PartialRatios(Duration(before)) : after = SetProgress(before, p).node

\* C34: Sequence.set_progress to a ratio strictly between the two fast-path
\* thresholds leaves untouched every fully passed child whose position is before the
\* previously active index, marks the fully passed children at or after that index
\* with set_progress(1), and sets the partial progress of exactly one child, the
\* newly active one.
C34_SeekTouchesWhatItPasses ==
    [][ ( /\ root.kind = "Sequence"
          /\ last'.op = "set_progress"
          /\ RLe(Eps, last'.arg) /\ RLe(last'.arg, RSub(One, Eps))
          /\ ~panicked' )
        => /\ \A i \in 1 .. root'.index :
                root'.tweens[i] = IF i - 1 < root.index
                                  THEN root.tweens[i]
                                  ELSE SetProgress(root.tweens[i], One).node
           /\ root'.index < Len(root.tweens)
           /\ SetPartly(root.tweens[root'.index + 1], root'.tweens[root'.index + 1])
           /\ \A i \in root'.index + 2 .. Len(root.tweens) :
                root'.tweens[i] \in {root.tweens[i], Rewind(root.tweens[i])}
      ]_vars

\* C35: in every state of a Sequence reachable through tick, set_progress, set_speed
\* and rewind, Sequence.tick performs no unsigned underflow: whenever the current
\* child returns Completed and the sequence is not finished, the child's
\* times_completed() is at least one more than the value read before the child's
\* tick and the remaining delta is at least the extra-loop time subtracted from it;
\* no tick of the sequence panics.
C35_TickNeverUnderflows ==
    (root.kind = "Sequence" /\ ~panicked /\ root.index < Len(root.tweens))
      => \A delta \in Deltas :
           LET tween == root.tweens[root.index + 1]
               prev_completions == TimesCompleted(tween)
               r == Tick(tween, delta, NoEffects(target))
           IN  /\ (r.state = "Completed" /\ root.index + 1 < Len(root.tweens))
                    => /\ TimesCompleted(r.node) >= prev_completions + 1
                       /\ delta >= (TimesCompleted(r.node) - prev_completions - 1)
                                     * Duration(r.node)
               /\ ~Ticked(delta).env.panicked

\* the lenses of the children write different fields of the target
DistinctLenses(tweens) ==
    \A i, j \in 1 .. Len(tweens) : i # j => tweens[i].lens # tweens[j].lens

\* C36: seeking and ticking agree on the target: for a fresh Sequence of Once tweens
\* whose lenses write different target fields, set_progress(r) followed by
\* tick(Duration::ZERO) leaves the target equal to the one produced by ticking a fresh
\* copy by r x total duration, so that every child skipped by the seek shows its end
\* value and the active child its partial value.
C36_SeekAndTickAgreeOnTarget ==
    [][ ( /\ root.kind = "Sequence"
          /\ last.op = "new"
          /\ OnceTweens(root.tweens) /\ DistinctLenses(root.tweens)
          /\ Len(root.tweens) > 0
          /\ last'.op = "set_progress"
          /\ ~panicked' )
        => Tick(root', 0, NoEffects(target)).env.target
             = Tick(root, MulF32(root.duration, Clamp01(last'.arg)),
                    NoEffects(target)).env.target
      ]_vars

\* C37: when a LoopTimes(n) child of a Sequence completes during a tick, the delta
\* forwarded to the next child is the total time ticked into that child minus n x
\* its duration, whether that time arrived in one tick or in several: in a sequence
\* that was only ticked, by deltas summing to t, the first child is still current
\* while t is below n x its duration, it has completed exactly n times once it is
\* passed, and the next child, while it is current, has been played for t minus
\* n x the first child's duration.
C37_LoopTimesChildTakesItsIterations ==
    ( /\ root.kind = "Sequence"
      /\ Len(root.tweens) = 2
      /\ root.tweens[1].tweening_type.t = "LoopTimes"
      /\ ticked >= 0
      /\ ~panicked )
    => LET first == root.tweens[1]
           span == first.tweening_type.n * Duration(first)
       IN  /\ root.index = 0 => ticked < span
           /\ root.index >= 1 => first.times_completed = first.tweening_type.n
           /\ root.index = 1 => root.tweens[2].clock.elapsed = ticked - span

\* C38: a Sequence or Tracks whose leaves all have bounded policies (Once,
\* LoopTimes(n), PingPongTimes(n), Delay) with positive durations, ticked repeatedly
\* with a fixed positive delta and no seek, speed change or rewind, eventually
\* returns Completed; the index of the Sequence never goes back and reaches the
\* number of children, and every child it has passed has been played to completion.
C38_SteppingCompletes ==
    /\ <>(last.op = "tick" /\ last.state = "Completed")
    /\ <>(IF root.kind = "Sequence" THEN root.index = Len(root.tweens) ELSE TRUE)
    /\ [][IF root.kind = "Sequence"
          THEN root'.index \in root.index .. Len(root.tweens)
          ELSE TRUE]_vars
    /\ [](IF root.kind = "Sequence"
          THEN \A i \in 1 .. root.index : TimesCompleted(root.tweens[i]) >= 1
          ELSE TRUE)

\* C38 witness: a sequence of a LoopTimes(2) tween, a Delay and a Once tween has
\* returned Completed from a tick of one unit after passing its three children
C38_Witness ==
    /\ root.kind = "Sequence"
    /\ Len(root.tweens) = 3
    /\ root.tweens[1].tweening_type = LoopTimes(2)
    /\ root.tweens[2].kind = "Delay"
    /\ last = [op |-> "tick", arg |-> One, state |-> "Completed"]
    /\ root.index = 3
    /\ root.tweens[1].times_completed = 2
    /\ TimesCompleted(root.tweens[3]) = 1

====
